---- MODULE Spec2Model ----
(***************************************************************************)
(* A model of pstack's core-file memory reader (src/dead.cc:               *)
(* CoreReader::read, readFromHdr) and of the DWARF unit's lazy caches      *)
(* (src/dwarf_unit.cc: Unit::offsetToRawDIE, offsetToDIE, root, getMacros, *)
(* getLines, load, purge).                                                 *)
(*                                                                         *)
(* Addresses, sizes and file offsets are unsigned integers of a scaled     *)
(* down width: every subtraction the code does on Elf::Off is taken modulo *)
(* Modulus.  A byte is modelled by a number that identifies where it came  *)
(* from: FileByte(image, k) for the byte at file offset k of an image's    *)
(* underlying reader (never 0, different for different images and          *)
(* offsets) and 0 for a byte written by memset.                            *)
(***************************************************************************)
EXTENDS Integers, Sequences, FiniteSets, TLC

\* ------------------------------------------------------------------ bounds
\* Remote addresses are 0 .. MaxAddr-1; a read asks for 0 .. MaxAddr bytes.
MaxAddr == 2
\* The core image has at most MaxSegs PT_LOAD segments.
MaxSegs == 2
\* At most MaxObjs objects are loaded into the process.
MaxObjs == 1

Modulus == 2 * (MaxAddr + 1)
Addrs == 0..(MaxAddr - 1)

Min(a, b) == IF a <= b THEN a ELSE b
Max(a, b) == IF a >= b THEN a ELSE b
\* Unsigned subtraction on Elf::Off / size_t.
USub(a, b) == (a - b) % Modulus

\* ------------------------------------------------------- images and bytes
\* A PT_LOAD program header: the four Elf::Phdr fields the reader uses.
Regions == { r \in [vaddr : Addrs, filesz : 0..MaxAddr, memsz : 1..MaxAddr] :
               r.filesz <= r.memsz /\ r.vaddr + r.memsz <= MaxAddr }

RECURSIVE FileSum(_, _)
FileSum(s, n) == IF n = 0 THEN 0 ELSE s[n].filesz + FileSum(s, n - 1)

\* The segments of an image, in p_vaddr order and not overlapping, with the
\* file portions packed one after the other behind a one byte header.
Phdrs(s) == [i \in 1..Len(s) |->
               [p_vaddr |-> s[i].vaddr, p_offset |-> 1 + FileSum(s, i - 1),
                p_filesz |-> s[i].filesz, p_memsz |-> s[i].memsz]]

Layouts(n) == { s \in UNION { [1..k -> Regions] : k \in 0..n } :
                  \A i \in 1..(Len(s) - 1) : s[i].vaddr + s[i].memsz <= s[i + 1].vaddr }

\* The core image: absent (CoreReader::core is null) or a list of segments.
NoCore == [present |-> FALSE, segs |-> <<>>]
CoreImages == {NoCore} \cup { [present |-> TRUE, segs |-> Phdrs(s)] : s \in Layouts(MaxSegs) }

\* A loaded object: its load address and its image (one segment at p_vaddr 0).
ObjRegions == { r \in Regions : r.vaddr = 0 }
LoadedObjects == { o \in { [loadAddr |-> l, segs |-> Phdrs(<<r>>)] :
                                  l \in Addrs, r \in ObjRegions } :
                     o.loadAddr + o.segs[1].p_memsz <= MaxAddr }
ObjectLists == UNION { [1..k -> LoadedObjects] : k \in 0..MaxObjs }

\* The byte at file offset k of image id (0: the core, i > 0: objects[i]).
FileByte(id, k) == 1 + id * Modulus + k

VARIABLES
    core,        \* CoreReader::core: the core image
    objects,     \* Process::objects: the loaded objects, in search order
    pc,          \* "idle", "loop" (at the while test), "break", "done", "threw"
    start,       \* read's local: the address the read began at
    len,         \* the size the caller asked for
    remoteAddr,  \* read's cursor
    size,        \* read's remaining size
    out,         \* the bytes written through ptr so far
    result,      \* read's return value
    last,        \* what the latest loop iteration did (see Iteration)
    ioShort      \* an underlying reader has delivered fewer bytes than asked

readVars == <<core, objects, pc, start, len, remoteAddr, size, out, result, last, ioShort>>

\* --------------------------------------------------------------- lookups
\* Elf::Object::getSegmentForAddress: the index of the segment whose
\* [p_vaddr, p_vaddr + p_memsz) holds a, the one of smallest p_vaddr when
\* several do; 0 stands for nullptr.
getSegmentForAddress(segs, a) ==
    LET hits == { i \in 1..Len(segs) :
                    segs[i].p_vaddr <= a /\ a < segs[i].p_vaddr + segs[i].p_memsz }
    IN IF hits = {} THEN 0
       ELSE CHOOSE i \in hits : \A j \in hits : segs[i].p_vaddr <= segs[j].p_vaddr

\* Process::findSegment: the first loaded object with a segment holding
\* addr - loadAddr, as (object index, segment index); obj = 0 when none does.
findSegment(objs, addr) ==
    LET hits == { i \in 1..Len(objs) :
                    getSegmentForAddress(objs[i].segs, USub(addr, objs[i].loadAddr)) # 0 }
    IN IF hits = {} THEN [obj |-> 0, hdr |-> 0]
       ELSE LET i == CHOOSE k \in hits : \A j \in hits : k <= j
            IN [obj |-> i,
                hdr |-> getSegmentForAddress(objs[i].segs, USub(addr, objs[i].loadAddr))]

\* Reader::read of an image's io: at most lim bytes are delivered.
ioRead(lim, count) == Min(lim, count)
\* What the readers of the core and of an object deliver during one pass of
\* the loop: all they are asked, or one of them nothing or a single byte (the
\* first short read throws, so a second one in the same pass is never seen).
ReaderLimits == { <<MaxAddr, MaxAddr>>, <<0, MaxAddr>>, <<1, MaxAddr>>,
                  <<MaxAddr, 0>>, <<MaxAddr, 1>> }

\* -------------------------------------------------------------- readFromHdr
\* Mutants of HdrResult: std::min for std::max; the tail tested against
\* p_filesz.
HdrResult_MinClear(id, hdr, fileOff, rv, threw, off, sz, toClear) ==
    [threw |-> threw, short |-> FALSE, rv |-> rv,
     bytes |-> [k \in 1..rv |-> FileByte(id, fileOff + k - 1)],
     toClear |-> Min(IF toClear > rv THEN toClear - rv ELSE 0,
                     IF sz # 0 /\ off < hdr.p_memsz THEN Min(sz, hdr.p_memsz - off) ELSE 0)]

HdrResult_TailByFilesz(id, hdr, fileOff, rv, threw, off, sz, toClear) ==
    [threw |-> threw, short |-> FALSE, rv |-> rv,
     bytes |-> [k \in 1..rv |-> FileByte(id, fileOff + k - 1)],
     toClear |-> Max(IF toClear > rv THEN toClear - rv ELSE 0,
                     IF sz # 0 /\ off < hdr.p_filesz THEN Min(sz, hdr.p_filesz - off) ELSE 0)]

\* Mutant of HdrResult: the tail is not cut to the size still wanted.
HdrResult_WholeTail(id, hdr, fileOff, rv, threw, off, sz, toClear) ==
    [threw |-> threw, short |-> FALSE, rv |-> rv,
     bytes |-> [k \in 1..rv |-> FileByte(id, fileOff + k - 1)],
     toClear |-> Max(IF toClear > rv THEN toClear - rv ELSE 0,
                     IF sz # 0 /\ off < hdr.p_memsz THEN hdr.p_memsz - off ELSE 0)]

\* The tail of readFromHdr, after the file portion was read: rv bytes came
\* from file offset fileOff on, off and sz are the updated locals, threw tells
\* whether the short-read test has thrown.
HdrResult(id, hdr, fileOff, rv, threw, off, sz, toClear) ==
    [threw |-> threw, short |-> FALSE, rv |-> rv,
     bytes |-> [k \in 1..rv |-> FileByte(id, fileOff + k - 1)],
     toClear |-> Max(IF toClear > rv THEN toClear - rv ELSE 0,
                     IF sz # 0 /\ off < hdr.p_memsz THEN Min(sz, hdr.p_memsz - off) ELSE 0)]

\* Mutants of HdrFile: the read starts at p_offset; a short read is let pass.
HdrFile_NoOff(id, hdr, off, fileSize, rv, sz, toClear) ==
    [HdrResult(id, hdr, hdr.p_offset, rv, rv # fileSize, off + rv, USub(sz, rv), toClear)
       EXCEPT !.short = (rv # fileSize)]

HdrFile_NoThrow(id, hdr, off, fileSize, rv, sz, toClear) ==
    [HdrResult(id, hdr, hdr.p_offset + off, rv, FALSE, off + rv, USub(sz, rv), toClear)
       EXCEPT !.short = (rv # fileSize)]

\* The file branch of readFromHdr: fileSize bytes were asked of the image's io
\* at p_offset + off and rv came; fewer than asked throws.  `short` records
\* that the reader came up short, whatever the code makes of it.
HdrFile(id, hdr, off, fileSize, rv, sz, toClear) ==
    [HdrResult(id, hdr, hdr.p_offset + off, rv, rv # fileSize, off + rv, USub(sz, rv), toClear)
       EXCEPT !.short = (rv # fileSize)]

\* readFromHdr(obj, hdr, addr, ptr, size, toClear) with obj's io delivering at
\* most lim bytes: rv bytes copied, the new *toClear, and whether it threw.
readFromHdr(id, hdr, addr, sz, toClear, lim) ==
    LET off == USub(addr, hdr.p_vaddr)
    IN IF off < hdr.p_filesz
       THEN HdrFile(id, hdr, off, Min(hdr.p_filesz - off, sz),
                    ioRead(lim, Min(hdr.p_filesz - off, sz)), sz, toClear)
       ELSE HdrResult(id, hdr, hdr.p_offset + off, 0, FALSE, off, sz, toClear)

\* ------------------------------------------------------- CoreReader::read
\* Mutant of Continues: the zero-fill tail is not looked at.
Continues_AnyData(rc, zeroes) == rc # 0

\* The test before `continue`: data came from the core's header and nothing
\* is left to default.
Continues(rc, zeroes) == rc # 0 /\ zeroes = 0

\* Mutant of Stuck: zeros written do not count as progress.
Stuck_NoObject(objHdr, zeroes) == objHdr = 0

\* The test before `break`: nothing from core, objects, or defaulted.
Stuck(objHdr, zeroes) == objHdr = 0 /\ zeroes = 0

NoRead == [threw |-> FALSE, short |-> FALSE, rv |-> 0, bytes |-> <<>>, toClear |-> 0]
NoSegment == [obj |-> 0, hdr |-> 0]
Zeroes(n) == [k \in 1..n |-> 0]

\* The end of an iteration: r1 is what the core gave (h1 its header), f and r2
\* what the loaded objects gave from address a1, zeroes what memset writes.
IterationEnd(rAddr, h1, r1, searched, f, a1, s1, r2, zeroes) ==
    [ran |-> TRUE,
     threw |-> r1.threw \/ r2.threw,
     short |-> r1.short \/ r2.short,
     at |-> rAddr,
     coreHdr |-> h1, coreRc |-> r1.rv, coreZeroes |-> r1.toClear,
     searched |-> searched,
     obj |-> f.obj, objHdr |-> f.hdr, objAt |-> a1, objRc |-> r2.rv,
     zeroes |-> zeroes,
     bytes |-> r1.bytes \o r2.bytes \o Zeroes(zeroes),
     addr |-> a1 + r2.rv + zeroes,
     size |-> USub(USub(s1, r2.rv), zeroes),
     brk |-> searched /\ ~r2.threw /\ Stuck(f.hdr, zeroes)]

\* The search of the loaded objects, from address a1 with s1 bytes wanted.
IterationObjects(objs, rAddr, h1, r1, a1, s1, f, limObj) ==
    IF f.hdr # 0
    THEN LET r2 == readFromHdr(f.obj, objs[f.obj].segs[f.hdr],
                               USub(a1, objs[f.obj].loadAddr), s1, r1.toClear, limObj)
         IN IterationEnd(rAddr, h1, r1, TRUE, f, a1, s1, r2,
                         IF r2.threw THEN 0 ELSE r2.toClear)
    ELSE IterationEnd(rAddr, h1, r1, TRUE, f, a1, s1, NoRead, r1.toClear)

\* What follows the core's part of an iteration: throw, `continue`, or the
\* search of the loaded objects.
IterationCore(objs, rAddr, sz, h1, r1, limObj) ==
    IF r1.threw \/ (h1 # 0 /\ Continues(r1.rv, r1.toClear))
    THEN IterationEnd(rAddr, h1, r1, FALSE, NoSegment, rAddr + r1.rv, USub(sz, r1.rv),
                      NoRead, 0)
    ELSE IterationObjects(objs, rAddr, h1, r1, rAddr + r1.rv, USub(sz, r1.rv),
                          findSegment(objs, rAddr + r1.rv), limObj)

\* One pass through the body of read's while loop, from cursor rAddr with sz
\* bytes wanted, the core's reader delivering at most limCore bytes and the
\* object's reader at most limObj.
Iteration(c, objs, rAddr, sz, limCore, limObj) ==
    LET h1 == IF c.present THEN getSegmentForAddress(c.segs, rAddr) ELSE 0
    IN IterationCore(objs, rAddr, sz, h1,
                     IF h1 # 0 THEN readFromHdr(0, c.segs[h1], rAddr, sz, 0, limCore)
                     ELSE NoRead,
                     limObj)

NoIteration == [ran |-> FALSE, threw |-> FALSE, short |-> FALSE, at |-> 0, coreHdr |-> 0, coreRc |-> 0,
                coreZeroes |-> 0, searched |-> FALSE, obj |-> 0, objHdr |-> 0, objAt |-> 0,
                objRc |-> 0, zeroes |-> 0, bytes |-> <<>>, addr |-> 0, size |-> 0,
                brk |-> FALSE]

ReadIdle ==
    /\ pc = "idle" /\ start = 0 /\ len = 0 /\ remoteAddr = 0 /\ size = 0
    /\ out = <<>> /\ result = 0 /\ last = NoIteration /\ ioShort = FALSE

ReaderStart ==
    /\ core \in CoreImages
    /\ objects \in ObjectLists
    /\ ReadIdle

\* A caller enters read(addr, n, ptr).
ReadStart(addr, n) ==
    /\ pc = "idle"
    /\ pc' = "loop"
    /\ start' = addr /\ remoteAddr' = addr
    /\ len' = n /\ size' = n
    /\ UNCHANGED <<core, objects, out, result, last, ioShort>>

\* The body of `while (size != 0)`, once.
ReadLoop(limCore, limObj) ==
    /\ pc = "loop" /\ size # 0
    /\ LET it == Iteration(core, objects, remoteAddr, size, limCore, limObj)
       IN /\ last' = it
          /\ ioShort' = (ioShort \/ it.short)
          /\ IF it.threw
             THEN /\ pc' = "threw"
                  /\ UNCHANGED <<remoteAddr, size, out>>
             ELSE /\ pc' = IF it.brk THEN "break" ELSE "loop"
                  /\ remoteAddr' = it.addr
                  /\ size' = it.size
                  /\ out' = out \o it.bytes
    /\ UNCHANGED <<core, objects, start, len, result>>

\* The loop is left (size == 0, or break) and read returns remoteAddr - start.
ReadReturn ==
    /\ \/ pc = "loop" /\ size = 0
       \/ pc = "break"
    /\ pc' = "done"
    /\ result' = USub(remoteAddr, start)
    /\ UNCHANGED <<core, objects, start, len, remoteAddr, size, out, last, ioShort>>

\* ------------------------------------------------- properties of the reader
\* The read has come to an end: it returned or it threw.
Ended == pc \in {"done", "threw"}
\* The read is under way: in the loop, or past its break and not yet returned.
Running == pc \in {"loop", "break"}

CoreSegs == 1..Len(core.segs)
\* Address a lies in the file portion / in the zero-fill tail of core segment i.
InCoreFile(i, a) ==
    core.segs[i].p_vaddr <= a /\ a < core.segs[i].p_vaddr + core.segs[i].p_filesz
InCoreTail(i, a) ==
    /\ core.segs[i].p_vaddr + core.segs[i].p_filesz <= a
    /\ a < core.segs[i].p_vaddr + core.segs[i].p_memsz
\* The core's underlying byte for address a of segment i.
CoreByte(i, a) == FileByte(0, core.segs[i].p_offset + (a - core.segs[i].p_vaddr))

\* Address a translated into loaded object j holds: in its segment, in the
\* segment's file portion, in the segment's zero-fill tail.
ObjStart(j) == objects[j].loadAddr + objects[j].segs[1].p_vaddr
InObj(j, a) == ObjStart(j) <= a /\ a < ObjStart(j) + objects[j].segs[1].p_memsz
InObjFile(j, a) == ObjStart(j) <= a /\ a < ObjStart(j) + objects[j].segs[1].p_filesz
InObjTail(j, a) == InObj(j, a) /\ ~InObjFile(j, a)
ObjByte(j, a) == FileByte(j, objects[j].segs[1].p_offset + (a - ObjStart(j)))
\* The loaded object the process finds for address a (0: none).
Found(a) == findSegment(objects, a).obj
\* The file bytes the found object has from address a on.
FoundFileLeft(a) ==
    IF Found(a) # 0 /\ InObjFile(Found(a), a)
    THEN ObjStart(Found(a)) + objects[Found(a)].segs[1].p_filesz - a
    ELSE 0

Mapped(a) == (\E i \in CoreSegs : InCoreFile(i, a) \/ InCoreTail(i, a))
             \/ (\E j \in 1..Len(objects) : InObj(j, a))
\* The number of mapped addresses in a row from a on, at most n.
RECURSIVE MappedRun(_, _)
MappedRun(a, n) == IF n = 0 \/ ~Mapped(a) THEN 0 ELSE 1 + MappedRun(a + 1, n - 1)

\* C1: a read whose range lies inside the file portion of a core segment,
\* with readers that deliver what they are asked, returns len and the
\* bytes of the core file at p_offset + (addr - p_vaddr) + k, whatever
\* objects are loaded.
C1_FilePortionRead ==
    \A i \in CoreSegs :
        (InCoreFile(i, start) /\ start + len <= core.segs[i].p_vaddr + core.segs[i].p_filesz
         /\ Ended /\ ~ioShort)
        => /\ pc = "done"
           /\ result = len
           /\ out = [k \in 1..len |-> CoreByte(i, start + k - 1)]

C1_Witness ==
    /\ pc = "done" /\ len >= 1 /\ result = len
    /\ \E i \in CoreSegs :
          /\ InCoreFile(i, start)
          /\ start + len <= core.segs[i].p_vaddr + core.segs[i].p_filesz
          /\ start > core.segs[i].p_vaddr
    /\ Found(start) # 0 /\ InObjFile(Found(start), start)

\* The range of the read straddles the file/zero boundary of core segment i.
Straddles(i) ==
    /\ start < core.segs[i].p_vaddr + core.segs[i].p_filesz
    /\ InCoreFile(i, start)
    /\ core.segs[i].p_vaddr + core.segs[i].p_filesz < start + len
    /\ start + len <= core.segs[i].p_vaddr + core.segs[i].p_memsz
Boundary(i) == core.segs[i].p_vaddr + core.segs[i].p_filesz

\* C2 as stated: a read that straddles the file/zero boundary of a core
\* segment returns len, file bytes below the boundary and zeros from it on.
C2_StraddleZeroSuffix ==
    \A i \in CoreSegs :
        (Straddles(i) /\ pc = "done")
        => /\ result = len
           /\ out = [k \in 1..len |->
                      IF start + k - 1 < Boundary(i) THEN CoreByte(i, start + k - 1) ELSE 0]

\* C2 amended: such a read returns len when the readers deliver what they
\* are asked; the bytes below the boundary are the core's file bytes; from the
\* boundary on come the file bytes that the loaded object found at the
\* boundary has there (none if no object is found or the boundary is in its
\* zero-fill tail), and zeros after them.
C2_StraddleObjectThenZero ==
    \A i \in CoreSegs :
        (Straddles(i) /\ Ended /\ ~ioShort)
        => /\ pc = "done"
           /\ result = len
           /\ out = [k \in 1..len |->
                      IF start + k - 1 < Boundary(i) THEN CoreByte(i, start + k - 1)
                      ELSE IF start + k - 1 < Boundary(i) + FoundFileLeft(Boundary(i))
                           THEN ObjByte(Found(Boundary(i)), start + k - 1)
                           ELSE 0]

C2_Witness ==
    /\ pc = "done" /\ result = len
    /\ \E i \in CoreSegs : Straddles(i) /\ FoundFileLeft(Boundary(i)) = 0
                           /\ Found(Boundary(i)) # 0
    /\ out[len] = 0 /\ out[1] # 0

\* The whole range of the read lies in the zero-fill tail of core segment i,
\* of loaded object j.
RangeInCoreTail(i) ==
    len > 0 /\ InCoreTail(i, start) /\ start + len <= core.segs[i].p_vaddr + core.segs[i].p_memsz
RangeInObjTail(j) ==
    len > 0 /\ InObjTail(j, start) /\ start + len <= ObjStart(j) + objects[j].segs[1].p_memsz

\* C3 as stated: a read whose range lies in the zero-fill tail of a segment
\* returns len zero bytes, whatever else is mapped there.
C3_TailReadsZero ==
    ((\E i \in CoreSegs : RangeInCoreTail(i)) \/ (\E j \in 1..Len(objects) : RangeInObjTail(j)))
    /\ pc = "done"
    => result = len /\ out = Zeroes(len)

\* C3 amended: a read whose range lies in the zero-fill tail of the core
\* segment holding addr returns len zero bytes if the loaded object found at
\* addr has no file bytes there; so does a read whose range lies in the
\* zero-fill tail of the loaded object found at addr if addr is not in the
\* file portion of a core segment.  Neither read throws.
C3_TailReadsZeroUnlessFileBytes ==
    ( \/ (\E i \in CoreSegs : RangeInCoreTail(i)) /\ FoundFileLeft(start) = 0
      \/ /\ Found(start) # 0 /\ RangeInObjTail(Found(start))
         /\ \A i \in CoreSegs : ~InCoreFile(i, start) )
    /\ Ended
    => pc = "done" /\ result = len /\ out = Zeroes(len)

C3_Witness ==
    /\ pc = "done" /\ len >= 2 /\ out = Zeroes(len)
    /\ \E i \in CoreSegs : RangeInCoreTail(i)
    /\ Found(start) # 0 /\ FoundFileLeft(start) = 0

\* C4: read returns the number of mapped addresses in a row from addr on
\* (at most len): a count below len only with addr + count covered by no
\* core segment and no loaded object, 0 when addr itself is unmapped.
C4_ShortOnlyAtUnmapped ==
    pc = "done" =>
        /\ result = MappedRun(start, len)
        /\ result <= len
        /\ (result < len => ~Mapped(start + result))

C4_Witness ==
    /\ pc = "done" /\ 0 < result /\ result < len
    /\ ~Mapped(start + result)

\* C5: once an underlying reader has delivered fewer bytes than it was asked
\* for, the read has thrown; it returns no count.
C5_ShortReadThrows == ioShort => pc = "threw"

C5_Witness ==
    /\ pc = "threw" /\ ioShort
    /\ last.obj # 0 /\ last.coreZeroes > 0

\* C6: a byte returned for an address that lies in the file portion of a core
\* segment and in a segment of a loaded object is the core's byte, wherever
\* the read started.
C6_CoreBytesWin ==
    \A k \in 1..Len(out) : \A i \in CoreSegs :
        (InCoreFile(i, start + k - 1) /\ \E j \in 1..Len(objects) : InObj(j, start + k - 1))
        => out[k] = CoreByte(i, start + k - 1)

\* C7 as stated: a pass of the loop searches the loaded objects only if the
\* core gave neither bytes nor a zero-fill tail.
C7_ObjectsOnlyIfCoreGaveNothing ==
    (last.ran /\ last.searched) => (last.coreRc = 0 /\ last.coreZeroes = 0)

\* C7 amended: a pass of the loop that does not throw searches the loaded
\* objects unless the core gave bytes and no zero-fill tail; when the core
\* gave a zero-fill tail, the bytes an object has at the cursor are written
\* in place of that many zeros, and bytes and zeros together cover the tail.
C7_ObjectsUnlessCoreBytesOnly ==
    (last.ran /\ ~last.threw) =>
        /\ last.searched <=> ~(last.coreRc # 0 /\ last.coreZeroes = 0)
        /\ (last.coreZeroes > 0 =>
              /\ last.objRc = Min(FoundFileLeft(last.objAt), size + last.objRc + last.zeroes)
              /\ last.objRc + last.zeroes >= last.coreZeroes)

C7_Witness ==
    /\ last.ran /\ ~last.threw /\ last.searched
    /\ last.coreRc > 0 /\ last.coreZeroes > 0 /\ last.objRc > 0


(***************************************************************************)
(* Dwarf::Unit (src/dwarf_unit.cc).  Section offsets are 0 .. MaxOff.  One *)
(* unit is modelled; 1 stands for a reference to it and 0 for no unit.  An *)
(* object made on the heap is named by its kind (the DIE::Raw of an        *)
(* offset, the LineInfo, the Macros) and a number never used again for     *)
(* that kind, so that two objects are the same object exactly when kind    *)
(* and number are equal; 0 is the null pointer.                            *)
(***************************************************************************)
\* Offsets into .debug_info are 0 .. MaxOff.
MaxOff == 3
\* A counter of the model (decodes of one offset, runs of load, objects of one
\* kind made on the heap) stops at MaxCount.
MaxCount == 2
\* The abbreviation section holds no code or MaxAbbrev codes before its zero.
MaxAbbrev == 1

Offsets == 0..MaxOff

VARIABLES
    unitHdr,          \* the header fields set by Unit::Unit: offset, rootOffset, end
    debugInfo,        \* what .debug_info holds: nullAt (offsets whose abbreviation
                      \*   code is 0), and the root entry's tag and attributes
    debugAbbrev,      \* the number of codes at abbrevOffset before the zero code
    abbreviations,    \* Unit::abbreviations, as the set of its keys
    allEntries,       \* Unit::allEntries: offset -> raw entry (NullRaw: nullptr,
                      \*   NoSlot: the map has no such key)
    rangesForOffset,  \* Unit::rangesForOffset, as the set of its keys
    macros,           \* Unit::macros (0: nullptr)
    lines,            \* Unit::lines (0: nullptr)
    made,             \* the objects made on the heap so far: raw[offset], macros, lines
    decodes,          \* offset -> calls of DIE::decode since the last purge
    loads,            \* runs of Unit::load
    seen,             \* offset -> the raw entry objects of the DIEs offsetToDIE has
                      \*   returned for it (0: a DIE without raw entry)
    seenNow,          \* the same, since the last purge
    ret               \* the latest call and what it returned

unitVars == <<unitHdr, debugInfo, debugAbbrev, abbreviations, allEntries, rangesForOffset,
              macros, lines, made, decodes, loads, seen, seenNow, ret>>

\* A raw entry remembers the parent it was decoded under; nullptr.
NullRaw == [id |-> 0, parent |-> 0]
\* What allEntries has for an offset that is not one of its keys.
NoSlot == [id |-> 0 - 1, parent |-> 0]
NoEntries == [o \in Offsets |-> NoSlot]
\* DIE(): no unit, offset 0, no raw entry.
EmptyDIE == [unit |-> 0, offset |-> 0, raw |-> NullRaw]

\* The unit's fields (and the model's counters) as one value, for the
\* operations below, which take it and give the changed one.
UnitNow ==
    [abbreviations |-> abbreviations, allEntries |-> allEntries,
     rangesForOffset |-> rangesForOffset, macros |-> macros, lines |-> lines,
     made |-> made, decodes |-> decodes, loads |-> loads,
     seen |-> seen, seenNow |-> seenNow, ok |-> TRUE]

\* Unit::load: the codes of the abbreviation section up to the zero code.
load(u) ==
    [u EXCEPT !.abbreviations = @ \cup (1..debugAbbrev),
              !.loads = @ + 1,
              !.ok = @ /\ u.loads < MaxCount]

\* DIE::decode(unit, parent, offset): nullptr at an abbreviation code of 0,
\* else a new Raw.
decode(u, parent, offset) ==
    IF offset \in debugInfo.nullAt THEN NullRaw
    ELSE [id |-> u.made.raw[offset] + 1, parent |-> parent]

\* rawptr = DIE::decode(...), rawptr being the slot allEntries[offset].
Decoded(u, offset, raw) ==
    [u |-> [u EXCEPT !.allEntries[offset] = raw,
                     !.decodes[offset] = @ + 1,
                     !.made.raw[offset] = IF raw = NullRaw THEN @ ELSE @ + 1,
                     !.ok = /\ @
                            /\ u.decodes[offset] < MaxCount
                            /\ (raw = NullRaw \/ u.made.raw[offset] < MaxCount)],
     raw |-> raw]

\* Mutant of offsetToRawDIE: the slot is not looked at, every call decodes.
offsetToRawDIE_NoCache(u, parent, offset) ==
    IF offset = 0 \/ offset < unitHdr.offset \/ offset >= unitHdr.end
    THEN [u |-> u, raw |-> NullRaw]
    ELSE Decoded(u, offset, decode(u, parent, offset))

\* Mutant of offsetToRawDIE: a slot that holds nullptr is returned as it is.
offsetToRawDIE_KeepNull(u, parent, offset) ==
    IF offset = 0 \/ offset < unitHdr.offset \/ offset >= unitHdr.end
    THEN [u |-> u, raw |-> NullRaw]
    ELSE IF u.allEntries[offset] # NoSlot
         THEN [u |-> u, raw |-> u.allEntries[offset]]
         ELSE Decoded(u, offset, decode(u, parent, offset))

\* Mutant of offsetToRawDIE: no range test.
offsetToRawDIE_NoRange(u, parent, offset) ==
    IF u.allEntries[offset] # NoSlot /\ u.allEntries[offset] # NullRaw
    THEN [u |-> u, raw |-> u.allEntries[offset]]
    ELSE Decoded(u, offset, decode(u, parent, offset))

\* Unit::offsetToRawDIE.  allEntries[offset] makes the slot; a slot that holds
\* nullptr (new, or left by a decode that gave nullptr) is decoded.
offsetToRawDIE(u, parent, offset) ==
    IF offset = 0 \/ offset < unitHdr.offset \/ offset >= unitHdr.end
    THEN [u |-> u, raw |-> NullRaw]
    ELSE IF u.allEntries[offset] # NoSlot /\ u.allEntries[offset] # NullRaw
         THEN [u |-> u, raw |-> u.allEntries[offset]]
         ELSE Decoded(u, offset, decode(u, parent, offset))

\* DIE(shared_from_this(), offset, raw); its raw entry object is noted in
\* seen and seenNow.
MakeDIE(r, offset) ==
    [u |-> [r.u EXCEPT !.seen[offset] = @ \cup {r.raw.id},
                       !.seenNow[offset] = @ \cup {r.raw.id}],
     die |-> [unit |-> 1, offset |-> offset, raw |-> r.raw]]

\* Mutant of offsetToDIE: load runs whether or not there are abbreviations.
offsetToDIE_AlwaysLoad(u, parent, offset) ==
    MakeDIE(offsetToRawDIE(load(u), parent, offset), offset)

\* Unit::offsetToDIE.
offsetToDIE(u, parent, offset) ==
    MakeDIE(offsetToRawDIE(IF u.abbreviations = {} THEN load(u) ELSE u, parent, offset), offset)

\* Unit::root.
root(u) == offsetToDIE(u, 0, unitHdr.rootOffset)

\* DIE::tag and DIE::attribute of the root entry; an entry without a raw
\* entry has neither.
RootTag(die) == IF die.raw = NullRaw THEN "none" ELSE debugInfo.tag
RootHas(die, attr) == die.raw # NullRaw /\ attr \in debugInfo.attrs

\* std::make_unique<Macros>(...): a new object on the heap.
NewMacros(u) ==
    [u EXCEPT !.made.macros = @ + 1, !.macros = u.made.macros + 1,
              !.ok = @ /\ u.made.macros < MaxCount]
\* dwarf->linesAt(...): a new object on the heap.
NewLines(u) ==
    [u EXCEPT !.made.lines = @ + 1, !.lines = u.made.lines + 1,
              !.ok = @ /\ u.made.lines < MaxCount]

\* Unit::getMacros.
getMacros(u) ==
    IF u.macros # 0 THEN [u |-> u, ptr |-> u.macros]
    ELSE LET r == root(u)
         IN IF \E a \in {"DW_AT_GNU_macros", "DW_AT_macros", "DW_AT_macro_info"} :
                  RootHas(r.die, a)
            THEN [u |-> NewMacros(r.u), ptr |-> NewMacros(r.u).macros]
            ELSE [u |-> r.u, ptr |-> 0]

\* The part of Unit::getLines after root().
LinesOfRoot(r) ==
    IF RootTag(r.die) # "DW_TAG_partial_unit" /\ RootTag(r.die) # "DW_TAG_compile_unit"
    THEN [u |-> r.u, ptr |-> 0]
    ELSE IF ~RootHas(r.die, "DW_AT_stmt_list")
         THEN [u |-> r.u, ptr |-> 0]
         ELSE [u |-> NewLines(r.u), ptr |-> NewLines(r.u).lines]

\* Mutant of getLines: the program kept in lines is not looked at.
getLines_NoCache(u) == LinesOfRoot(root(u))

\* Unit::getLines.
getLines(u) ==
    IF u.lines # 0 THEN [u |-> u, ptr |-> u.lines] ELSE LinesOfRoot(root(u))

\* Mutant of purge: the line-number program is dropped as well.
purge_DropLines(u) ==
    [u EXCEPT !.allEntries = NoEntries,
              !.rangesForOffset = {},
              !.macros = 0,
              !.lines = 0,
              !.decodes = [o \in Offsets |-> 0],
              !.seenNow = [o \in Offsets |-> {}]]

\* Unit::purge; the counts and the DIEs seen since the last purge start anew.
purge(u) ==
    [u EXCEPT !.allEntries = NoEntries,
              !.rangesForOffset = {},
              !.macros = 0,
              !.decodes = [o \in Offsets |-> 0],
              !.seenNow = [o \in Offsets |-> {}]]

\* ---------------------------------------------------------- unit actions
\* A unit as its constructor leaves it: a header of one byte at offset, the
\* root entry of one byte behind it, and the end of the unit.
UnitHeaders == { [offset |-> o, rootOffset |-> o + 1, end |-> o + 2] : o \in 0..(MaxOff - 1) }
\* The root entries: a compile unit with line and macro tables, an entry of
\* another tag, a partial unit without line table.
RootEntries == { [tag |-> "DW_TAG_compile_unit", attrs |-> {"DW_AT_stmt_list", "DW_AT_macros"}],
                 [tag |-> "DW_TAG_subprogram", attrs |-> {"DW_AT_stmt_list"}],
                 [tag |-> "DW_TAG_partial_unit", attrs |-> {"DW_AT_macro_info"}] }
\* .debug_info for the unit of header h: at most one offset of the unit where
\* the abbreviation code is 0, and the root entry.
DebugInfos(h) == { [nullAt |-> n, tag |-> r.tag, attrs |-> r.attrs] :
                     n \in {{}} \cup { {o} : o \in {h.offset, h.rootOffset} \ {0} },
                     r \in RootEntries }

UnitFresh ==
    /\ abbreviations = {} /\ allEntries = NoEntries /\ rangesForOffset = {}
    /\ macros = 0 /\ lines = 0
    /\ made = [raw |-> [o \in Offsets |-> 0], macros |-> 0, lines |-> 0]
    /\ decodes = [o \in Offsets |-> 0] /\ loads = 0
    /\ seen = [o \in Offsets |-> {}] /\ seenNow = [o \in Offsets |-> {}]
    /\ ret = [op |-> "new", req |-> 0, die |-> EmptyDIE, ptr |-> 0]

UnitStart ==
    /\ unitHdr \in UnitHeaders
    /\ debugInfo \in DebugInfos(unitHdr)
    /\ debugAbbrev \in {0, MaxAbbrev}
    /\ UnitFresh

\* The unit's fields take the values of u.
Becomes(u) ==
    /\ u.ok
    /\ abbreviations' = u.abbreviations /\ allEntries' = u.allEntries
    /\ rangesForOffset' = u.rangesForOffset /\ macros' = u.macros /\ lines' = u.lines
    /\ made' = u.made /\ decodes' = u.decodes /\ loads' = u.loads
    /\ seen' = u.seen /\ seenNow' = u.seenNow
    /\ UNCHANGED <<unitHdr, debugInfo, debugAbbrev>>

\* The offsets callers ask for: zero, the last one before the unit, the
\* unit's first, its root, the first one past its end.
Asked == {0, unitHdr.offset - 1, unitHdr.offset, unitHdr.rootOffset, unitHdr.end} \cap Offsets

\* A caller asks for the DIE at offset, under the parent at offset parent
\* (0: the empty DIE).
OffsetToDIE(parent, offset) ==
    LET r == offsetToDIE(UnitNow, parent, offset)
    IN /\ Becomes(r.u)
       /\ ret' = [op |-> "offsetToDIE", req |-> offset, die |-> r.die, ptr |-> 0]

Root ==
    LET r == root(UnitNow)
    IN /\ Becomes(r.u)
       /\ ret' = [op |-> "root", req |-> unitHdr.rootOffset, die |-> r.die, ptr |-> 0]

GetMacros ==
    LET r == getMacros(UnitNow)
    IN /\ Becomes(r.u)
       /\ ret' = [op |-> "getMacros", req |-> 0, die |-> EmptyDIE, ptr |-> r.ptr]

GetLines ==
    LET r == getLines(UnitNow)
    IN /\ Becomes(r.u)
       /\ ret' = [op |-> "getLines", req |-> 0, die |-> EmptyDIE, ptr |-> r.ptr]

\* A range list is looked up for the entry at offset and kept in the cache.
CacheRanges(offset) ==
    /\ allEntries[offset] # NoSlot /\ allEntries[offset] # NullRaw
    /\ Becomes([UnitNow EXCEPT !.rangesForOffset = @ \cup {offset}])
    /\ ret' = [op |-> "ranges", req |-> offset, die |-> EmptyDIE, ptr |-> 0]

Purge ==
    /\ Becomes(purge(UnitNow))
    /\ ret' = [op |-> "purge", req |-> 0, die |-> EmptyDIE, ptr |-> 0]

\* ------------------------------------------------ Unit::sourceFromAddr
\* A line matrix has at most MaxRows rows.
MaxRows == 3
\* Row addresses and the addresses looked up are 0 .. MaxLineAddr.
MaxLineAddr == 2

LineAddrs == 0..MaxLineAddr

VARIABLES
    matrix,     \* LineInfo::matrix of the unit's line-number program: rows of
                \*   addr, line, end_sequence (line: the row's place, which names it)
    srcRet      \* the latest sourceFromAddr call: its arguments, what it returned,
                \*   what it appended to info, whether it read past the last row

srcVars == <<matrix, srcRet>>

RowShapes == [addr : LineAddrs, end_sequence : BOOLEAN]
Numbered(f) ==
    [i \in DOMAIN f |-> [addr |-> f[i].addr, line |-> i, end_sequence |-> f[i].end_sequence]]
Matrices == { Numbered(f) : f \in UNION { [1..n -> RowShapes] : n \in 0..MaxRows } }

\* What the loop of sourceFromAddr leaves when it ends without a match.
NoMatch(past, fault) == [found |-> FALSE, info |-> <<>>, past |-> past, fault |-> fault]
\* info.emplace_back(name, i->line); return true.
Match(row, past) == [found |-> TRUE, info |-> <<row.line>>, past |-> past, fault |-> FALSE]

\* next->addr > addr for the row after the last one: the read is outside the
\* matrix, and gives a fault (beyond < 0) or whatever lies there (beyond).
PastEnd(row, addr, beyond) ==
    IF beyond < 0 THEN NoMatch(TRUE, TRUE)
    ELSE IF beyond > addr THEN Match(row, TRUE) ELSE NoMatch(TRUE, FALSE)

\* The loop over lines->matrix, from row i on.
RECURSIVE Scan(_, _, _, _)
Scan(m, i, addr, beyond) ==
    IF i > Len(m) THEN NoMatch(FALSE, FALSE)
    ELSE IF m[i].end_sequence THEN Scan(m, i + 1, addr, beyond)
    ELSE IF ~(m[i].addr <= addr) THEN Scan(m, i + 1, addr, beyond)
    ELSE IF i = Len(m) THEN PastEnd(m[i], addr, beyond)
    ELSE IF m[i + 1].addr > addr THEN Match(m[i], FALSE)
    ELSE Scan(m, i + 1, addr, beyond)

\* DIE::containsAddress of the root entry.
ContainsAddr == {"YES", "NO", "UNKNOWN"}

\* Unit::sourceFromAddr, after root(): r is what root() left, contains what
\* the root entry says of addr.
sourceFromAddr(r, addr, contains, beyond) ==
    IF contains = "NO" THEN [u |-> r.u, lines |-> FALSE, res |-> NoMatch(FALSE, FALSE)]
    ELSE IF getLines(r.u).ptr = 0
         THEN [u |-> getLines(r.u).u, lines |-> FALSE, res |-> NoMatch(FALSE, FALSE)]
         ELSE [u |-> getLines(r.u).u, lines |-> TRUE, res |-> Scan(matrix, 1, addr, beyond)]

SourceIdle ==
    srcRet = [op |-> "new", addr |-> 0, contains |-> "NO", lines |-> FALSE,
              res |-> NoMatch(FALSE, FALSE)]

SourceFromAddr(addr, contains, beyond) ==
    LET r == sourceFromAddr(root(UnitNow), addr, contains, beyond)
    IN /\ Becomes(r.u)
       /\ srcRet' = [op |-> "sourceFromAddr", addr |-> addr, contains |-> contains,
                     lines |-> r.lines, res |-> r.res]
       /\ ret' = [op |-> "sourceFromAddr", req |-> 0, die |-> EmptyDIE, ptr |-> 0]
       /\ UNCHANGED matrix

\* ------------------------------------------------ notes of the core image
(***************************************************************************)
(* coreImage->notes() is a list of notes; a note has a name, a type and    *)
(* data.  The data of an NT_PRSTATUS note reads as a prstatus_t (pr_pid,   *)
(* pr_reg), the data of an NT_FILE note as a FileNoteHeader (count), count *)
(* FileEntry records and the file names, each ended by NUL (0).            *)
(***************************************************************************)
\* An NT_FILE note announces at most MaxEntries entries.
MaxEntries == 2

\* The lengths of the file names, and the start addresses of the mappings.
NameLengths == {0, 1}
Starts == {0, 1}

VARIABLES
    notes,      \* coreImage->notes()
    loaded,     \* what addElfObject has added: name of the image, load address
    notePc,     \* where loadSharedObjectsFromFileNote is: "idle", "entries", "done"
    noteAt,     \* the place in notes of the NT_FILE note it works on (0: none)
    entryAt,    \* the place of the entry the loop is at
    stroff,     \* stroff
    totalSize,  \* totalSize
    attempts,   \* the try blocks entered: place of the entry, name, load address,
                \*   whether it threw
    names,      \* the names read by readString, in order
    noteRet     \* what the call returned ("none" while it runs)

noteVars == <<notes, loaded, notePc, noteAt, entryAt, stroff, totalSize, attempts, names, noteRet>>

NoData == [pr_pid |-> 0, pr_reg |-> 0, count |-> 0, entries |-> <<>>, names |-> <<>>]
Note(name, type, data) == [name |-> name, type |-> type, data |-> data]

\* A path of n characters.
Path(n) == [i \in 1..n |-> 1]
RECURSIVE Terminated(_)
\* The names region: each path followed by NUL.
Terminated(paths) ==
    IF paths = <<>> THEN <<>> ELSE Path(Head(paths)) \o <<0>> \o Terminated(Tail(paths))

FileEntries == [start : Starts, size : {1, 2}, fileOff : {0, 1}]
\* The data of an NT_FILE note with the entries of es and paths of the lengths ns.
FileData(es, ns) ==
    [NoData EXCEPT !.count = Len(es),
                   !.entries = [i \in DOMAIN es |->
                                  [start |-> es[i].start, end |-> es[i].start + es[i].size,
                                   fileOff |-> es[i].fileOff]],
                   !.names = Terminated(ns)]
FileNotesOf(n) ==
    { Note("CORE", "NT_FILE", FileData(es, ns)) :
        es \in [1..n -> FileEntries], ns \in [1..n -> NameLengths] }
FileNotes == UNION { FileNotesOf(n) : n \in 0..MaxEntries }

\* Notes the replay passes over: a thread record, and a file note of another
\* owner.
ThreadNote == Note("CORE", "NT_PRSTATUS", [NoData EXCEPT !.pr_pid = 1, !.pr_reg = 1])
ForeignFileNote ==
    Note("GNU", "NT_FILE", FileData(<<[start |-> 1, size |-> 1, fileOff |-> 0]>>, <<1>>))
\* The lists of notes with at most one of them ahead of the file note, or a
\* second file note behind it.
FileNoteLists ==
    {<<>>, <<ThreadNote>>}
      \cup { <<f>> : f \in FileNotes }
      \cup { <<ThreadNote, f>> : f \in FileNotes }
      \cup { <<ForeignFileNote, f>> : f \in FileNotes }
      \cup { <<f, ForeignFileNote, Note("CORE", "NT_FILE", ForeignFileNote.data)>> : f \in FileNotes }

\* Reader::readString(off): the characters from off up to the NUL.
RECURSIVE readString(_, _)
readString(region, off) ==
    IF off >= Len(region) \/ region[off + 1] = 0 THEN <<>>
    ELSE <<region[off + 1]>> \o readString(region, off + 1)

\* The first note the loop of loadSharedObjectsFromFileNote takes (0: none).
FileNoteAt(ns) ==
    IF \E i \in DOMAIN ns : ns[i].name = "CORE" /\ ns[i].type = "NT_FILE"
    THEN CHOOSE i \in DOMAIN ns :
            /\ ns[i].name = "CORE" /\ ns[i].type = "NT_FILE"
            /\ \A j \in 1..(i - 1) : ~(ns[j].name = "CORE" /\ ns[j].type = "NT_FILE")
    ELSE 0

\* Mutant of Advance: the NUL is not stepped over.
Advance_NoNul(off, name) == off + Len(name)

\* stroff += name.size() + 1.
Advance(off, name) == off + Len(name) + 1

\* Mutant of Attempt: what is thrown leaves the loop.
Attempt_Rethrow(ld, name, entry, throws) ==
    IF throws THEN [loaded |-> ld, raised |-> TRUE]
    ELSE [loaded |-> Append(ld, [name |-> name, loadAddr |-> entry.start]), raised |-> FALSE]

\* try { addElfObject(imageCache.getImageForName(name), entry.start); } catch (...) { }
\* throws: the lookup or addElfObject throws, and nothing is added.
Attempt(ld, name, entry, throws) ==
    IF throws THEN [loaded |-> ld, raised |-> FALSE]
    ELSE [loaded |-> Append(ld, [name |-> name, loadAddr |-> entry.start]), raised |-> FALSE]

NoteIdle ==
    /\ loaded = <<>> /\ notePc = "idle" /\ noteAt = 0 /\ entryAt = 0 /\ stroff = 0
    /\ totalSize = 0 /\ attempts = <<>> /\ names = <<>> /\ noteRet = "none"

\* loadSharedObjectsFromFileNote up to the loop over the entries.
LoadStart ==
    /\ notePc = "idle"
    /\ noteAt' = FileNoteAt(notes)
    /\ IF FileNoteAt(notes) = 0
       THEN notePc' = "done" /\ noteRet' = "false" /\ entryAt' = 0
       ELSE notePc' = "entries" /\ noteRet' = "none" /\ entryAt' = 1
    /\ stroff' = 0 /\ totalSize' = 0
    /\ UNCHANGED <<notes, loaded, attempts, names>>

\* One pass of the loop over the entries.
LoadEntry(throws) ==
    /\ notePc = "entries" /\ entryAt <= Len(notes[noteAt].data.entries)
    /\ LET entry == notes[noteAt].data.entries[entryAt]
           name == readString(notes[noteAt].data.names, stroff)
           tried == Attempt(loaded, name, entry, throws)
       IN /\ names' = Append(names, name)
          /\ stroff' = Advance(stroff, name)
          /\ totalSize' = totalSize + (entry.end - entry.start)
          /\ IF entry.fileOff = 0
             THEN /\ attempts' = Append(attempts, [entry |-> entryAt, name |-> name,
                                                    loadAddr |-> entry.start, threw |-> throws])
                  /\ loaded' = tried.loaded
                  /\ IF tried.raised
                     THEN notePc' = "done" /\ noteRet' = "threw" /\ entryAt' = entryAt
                     ELSE notePc' = "entries" /\ noteRet' = "none" /\ entryAt' = entryAt + 1
             ELSE /\ UNCHANGED <<attempts, loaded, notePc, noteRet>>
                  /\ entryAt' = entryAt + 1
    /\ UNCHANGED <<notes, noteAt>>

\* return true, after the last entry.
LoadReturn ==
    /\ notePc = "entries" /\ entryAt > Len(notes[noteAt].data.entries)
    /\ notePc' = "done" /\ noteRet' = "true"
    /\ UNCHANGED <<notes, loaded, noteAt, entryAt, stroff, totalSize, attempts, names>>

\* ------------------------------------------------ CoreProcess::getRegs
\* The core image has at most MaxNotes notes.
MaxNotes == 2
\* Task ids are 1 .. MaxPid; one more is asked for.
MaxPid == 2

\* The register files there are in prstatus records; 0 is a register file
\* nobody has filled in.
RegFiles == {1, 2}

VARIABLES
    lwps,       \* CoreProcess::lwps: task id -> Lwp
    regRet      \* the latest getRegs call: pid, the caller's buffer before and
                \*   after, what it returned

lwpVars == <<lwps, regRet>>

\* An Lwp as lwps[pid] makes it.
NewLwp == [regs |-> 0]
NoLwps == [p \in {} |-> NewLwp]

ThreadNotes ==
    { Note(name, type, [NoData EXCEPT !.pr_pid = pid, !.pr_reg = r]) :
        name \in {"CORE", "GNU"}, type \in {"NT_PRSTATUS", "NT_FPREGSET"},
        pid \in 1..MaxPid, r \in RegFiles }
ThreadNoteLists == UNION { [1..n -> ThreadNotes] : n \in 0..MaxNotes }

\* note.name() == "CORE" && note.type() == NT_PRSTATUS
IsPrstatus(note) == note.name = "CORE" /\ note.type = "NT_PRSTATUS"

\* Mutant of getRegs: the name of the note is not looked at.
RECURSIVE getRegs_AnyName(_, _, _)
getRegs_AnyName(ns, pid, reg) ==
    IF ns = <<>> THEN [ok |-> FALSE, reg |-> reg]
    ELSE IF Head(ns).type = "NT_PRSTATUS" /\ Head(ns).data.pr_pid = pid
         THEN [ok |-> TRUE, reg |-> Head(ns).data.pr_reg]
         ELSE getRegs_AnyName(Tail(ns), pid, reg)

\* CoreProcess::getRegs over the notes ns; reg is the caller's buffer.
RECURSIVE getRegs(_, _, _)
getRegs(ns, pid, reg) ==
    IF ns = <<>> THEN [ok |-> FALSE, reg |-> reg]
    ELSE IF IsPrstatus(Head(ns)) /\ Head(ns).data.pr_pid = pid
         THEN [ok |-> TRUE, reg |-> Head(ns).data.pr_reg]
         ELSE getRegs(Tail(ns), pid, reg)

\* CoreProcess::findLWPs over the notes ns: lwps[pr_pid] for each prstatus.
RECURSIVE findLWPs(_, _)
findLWPs(ns, lw) ==
    IF ns = <<>> THEN lw
    ELSE IF IsPrstatus(Head(ns)) /\ Head(ns).data.pr_pid \notin DOMAIN lw
         THEN findLWPs(Tail(ns), [p \in DOMAIN lw \cup {Head(ns).data.pr_pid} |->
                                     IF p \in DOMAIN lw THEN lw[p] ELSE NewLwp])
         ELSE findLWPs(Tail(ns), lw)

LwpIdle == lwps = NoLwps /\ regRet = [op |-> "new", pid |-> 0, before |-> 0, reg |-> 0, ok |-> FALSE]

\* CoreProcess::stopProcess.
StopProcess ==
    /\ lwps' = findLWPs(notes, lwps)
    /\ regRet' = [op |-> "stopProcess", pid |-> 0, before |-> 0, reg |-> 0, ok |-> FALSE]
    /\ UNCHANGED notes

GetRegs(pid, reg) ==
    /\ regRet' = [op |-> "getRegs", pid |-> pid, before |-> reg,
                  reg |-> getRegs(notes, pid, reg).reg, ok |-> getRegs(notes, pid, reg).ok]
    /\ UNCHANGED <<notes, lwps>>

\* ------------------------------------------- CoreProcess::addressSpace
VARIABLES
    spaceRet    \* the latest addressSpace call: whether there was one, and rv

\* coreImage->getSegments(PT_LOAD): the loadable segments of the image.
getSegments(image) == image.segs

\* Mutant of addressSpace: the size in memory is given for the size in the file.
RECURSIVE addressSpace_MemTwice(_, _)
addressSpace_MemTwice(hdrs, rv) ==
    IF hdrs = <<>> THEN rv
    ELSE addressSpace_MemTwice(Tail(hdrs),
            Append(rv, [vaddr |-> Head(hdrs).p_vaddr, fileSize |-> Head(hdrs).p_memsz,
                        memSize |-> Head(hdrs).p_memsz]))

\* The loop of CoreProcess::addressSpace over hdrs, rv being what it has so far.
RECURSIVE addressSpace(_, _)
addressSpace(hdrs, rv) ==
    IF hdrs = <<>> THEN rv
    ELSE addressSpace(Tail(hdrs),
            Append(rv, [vaddr |-> Head(hdrs).p_vaddr, fileSize |-> Head(hdrs).p_filesz,
                        memSize |-> Head(hdrs).p_memsz]))

SpaceIdle == spaceRet = [called |-> FALSE, rv |-> <<>>]

AddressSpace ==
    /\ spaceRet' = [called |-> TRUE, rv |-> addressSpace(getSegments(core), <<>>)]
    /\ UNCHANGED readVars

\* ------------------------------------------------ the unit's constructor
(***************************************************************************)
(* Unit::Unit reads a unit header from a reader placed at its first byte:  *)
(* the length (4 bytes, or 12 with the 64-bit escape), the version (2      *)
(* bytes), and then, by version, the unit type, the address size, the      *)
(* abbreviation offset and the type id.  Sizes are in bytes, as read.      *)
(***************************************************************************)
\* A header begins at an offset of 0..MaxAt in .debug_info.
MaxAt == 2
\* The length field holds 0..MaxLength.
MaxLength == 24
\* The architecture's address size.
ELF_BYTES == 8

VARIABLES
    header,   \* the bytes under the reader: where, and what the fields hold
    built     \* the unit constructed; NotBuilt before, Aborted after abort()

ctorVars == <<header, built>>

NotBuilt == [state |-> "none"]
Aborted == [state |-> "aborted"]

Versions == 2..5
\* The unit types of a version 5 header; "other" is any value not in the switch.
WholeTypes == {"DW_UT_compile", "DW_UT_type", "DW_UT_partial", "DW_UT_skeleton"}
SplitTypes == {"DW_UT_split_compile", "DW_UT_split_type"}
UnitTypes == WholeTypes \cup SplitTypes \cup {"other"}

\* The headers a reader can be placed at; before version 5 no unit type is read.
Headers ==
    { [at |-> a, wide |-> w, length |-> l, version |-> v, unitType |-> t] :
        a \in 0..MaxAt, w \in BOOLEAN, l \in 0..MaxLength,
        v \in Versions, t \in UnitTypes \cup {"none"} }
Readable == { h \in Headers : (h.version >= 5) <=> (h.unitType # "none") }

\* r.getlength(&dwarfLen): the value, the width it sets, and the reader's
\* offset after the field.
getlength(h) ==
    [length |-> h.length,
     dwarfLen |-> IF h.wide THEN 8 ELSE 4,
     after |-> h.at + (IF h.wide THEN 12 ELSE 4)]

\* Unit::Unit(di, r), r at h.
Unit(h) ==
    LET offset == h.at
        l == getlength(h)
        end == l.after + l.length
        atType == l.after + 2                \* after getu16()
        dwarfLen == IF h.version <= 2 THEN ELF_BYTES ELSE l.dwarfLen
        unit(rootOffset) ==
            [state |-> "built", offset |-> offset, length |-> l.length, end |-> end,
             version |-> h.version, dwarfLen |-> dwarfLen, rootOffset |-> rootOffset]
    IN  IF h.version >= 5
        THEN IF h.unitType \in WholeTypes
             THEN unit(atType + 1 + 1 + dwarfLen)
             ELSE IF h.unitType \in SplitTypes
                  THEN unit(atType + 1 + 1 + dwarfLen + 8)
                  ELSE Aborted
        ELSE unit(atType + (IF h.version <= 2 THEN 4 ELSE dwarfLen) + 1)

CtorStart == header \in Readable /\ built = NotBuilt
CtorIdle == header = [at |-> 0, wide |-> FALSE, length |-> 0, version |-> 2, unitType |-> "none"]
            /\ built = NotBuilt

\* The constructor runs on the header under the reader.
Construct ==
    /\ built = NotBuilt
    /\ built' = Unit(header)
    /\ UNCHANGED header

\* ---------------------------------------------------- the pstack driver
(***************************************************************************)
(* main installs a SIGINT handler that sets interrupted, with SA_RESETHAND:*)
(* the first SIGINT runs the handler and puts the default action back, a   *)
(* later one terminates the process.  emain then goes over its arguments   *)
(* and runs doStack on each process it can load.  A stack dump (pstack) is *)
(* begun by one step and ended by another, so that a signal can arrive     *)
(* while it runs.                                                          *)
(***************************************************************************)
\* emain is given at most MaxProcs arguments.
MaxProcs == 2
\* With a repeat delay, the dumps of one process are followed up to MaxDumps.
MaxDumps == 2

VARIABLES
    sleepTime,    \* the repeat delay (0: none)
    loadable,     \* per argument: Process::load gives a process
    interrupted,  \* the flag
    handler,      \* the action of SIGINT: "handler" or "default"
    sigAt,        \* where the driver was when the handler ran ("never" before)
    drvPc,        \* where the driver is: "load", "check", "dump", "sleep",
                  \*   "next", "exit", "killed"
    procAt,       \* the place of the argument at hand
    dumps,        \* per argument: the dumps completed
    inDump        \* a dump has begun and not ended

drvVars == <<sleepTime, loadable, interrupted, handler, sigAt, drvPc, procAt, dumps, inDump>>

\* Mutant of Continue: the flag is not looked at.
Continue_Always(flag) == TRUE

\* while (!interrupted)
Continue(flag) == ~flag

DriverStart ==
    /\ sleepTime \in {0, 1}
    /\ loadable \in UNION { [1..n -> BOOLEAN] : n \in 1..MaxProcs }
    /\ interrupted = FALSE /\ handler = "handler" /\ sigAt = "never"
    /\ drvPc = "load" /\ procAt = 1
    /\ dumps = [i \in DOMAIN loadable |-> 0]
    /\ inDump = FALSE

\* SIGINT is delivered.
Sigint ==
    /\ drvPc \notin {"exit", "killed"}
    /\ IF handler = "handler"
       THEN /\ interrupted' = TRUE /\ handler' = "default" /\ sigAt' = drvPc
            /\ UNCHANGED drvPc
       ELSE /\ drvPc' = "killed"
            /\ UNCHANGED <<interrupted, handler, sigAt>>
    /\ UNCHANGED <<sleepTime, loadable, procAt, dumps, inDump>>

\* Process::load(exec, argv[i], ...), and proc.load(options) in doStack.
Load ==
    /\ drvPc = "load"
    /\ drvPc' = IF loadable[procAt] THEN "check" ELSE "next"
    /\ UNCHANGED <<sleepTime, loadable, interrupted, handler, sigAt, procAt, dumps, inDump>>

\* The test of the while loop; pstack(...) begins when it lets the loop go on.
Check ==
    /\ drvPc = "check"
    /\ dumps[procAt] < MaxDumps
    /\ IF Continue(interrupted)
       THEN drvPc' = "dump" /\ inDump' = TRUE
       ELSE drvPc' = "next" /\ UNCHANGED inDump
    /\ UNCHANGED <<sleepTime, loadable, interrupted, handler, sigAt, procAt, dumps>>

\* pstack(...) returns; the loop sleeps or breaks.
Dump ==
    /\ drvPc = "dump"
    /\ dumps' = [dumps EXCEPT ![procAt] = @ + 1]
    /\ inDump' = FALSE
    /\ drvPc' = IF sleepTime # 0 THEN "sleep" ELSE "next"
    /\ UNCHANGED <<sleepTime, loadable, interrupted, handler, sigAt, procAt>>

\* usleep returns.
Sleep ==
    /\ drvPc = "sleep"
    /\ drvPc' = "check"
    /\ UNCHANGED <<sleepTime, loadable, interrupted, handler, sigAt, procAt, dumps, inDump>>

\* The for loop over the arguments moves on, or emain returns.
NextProc ==
    /\ drvPc = "next"
    /\ IF procAt < Len(loadable)
       THEN procAt' = procAt + 1 /\ drvPc' = "load"
       ELSE drvPc' = "exit" /\ UNCHANGED procAt
    /\ UNCHANGED <<sleepTime, loadable, interrupted, handler, sigAt, dumps, inDump>>

\* Every variable of the module.
vars == <<readVars, unitVars, srcVars, noteVars, lwpVars, spaceRet, drvVars, ctorVars>>

\* C21, in every state: the size still wanted never exceeds the size asked,
\* the cursor has moved by what is no longer wanted, and the count returned
\* is at most the size asked.
C21_Bounded ==
    /\ size <= len
    /\ remoteAddr = start + (len - size)
    /\ pc = "done" => result = len - size /\ result <= len
\* C21, in every pass of the loop that does not throw: the real bytes fit in
\* the size wanted, the zeros fit in what the real bytes leave, the size
\* wanted goes down by both, and it goes strictly down unless the loop breaks.
C21_Progress ==
    pc = "loop" /\ size # 0 /\ pc' # "threw" =>
        /\ last'.coreRc + last'.objRc <= size
        /\ last'.zeroes <= size - (last'.coreRc + last'.objRc)
        /\ size' = size - (last'.coreRc + last'.objRc) - last'.zeroes
        /\ pc' = "break" \/ size' < size
        /\ pc' = "break" => size' = size

\* C21: read terminates for every (addr, len) and every core and loaded
\* objects: each pass of the loop strictly decreases the size wanted or leaves
\* the loop, the zeros of a pass never exceed what is wanted after its real
\* bytes, so the size never underflows, the count returned is at most len,
\* and a read under way comes to an end.
C21_ReadTerminates ==
    /\ []C21_Bounded
    /\ [][C21_Progress]_vars
    /\ <>[]~Running

\* A read of two bytes returned after two passes: one real byte from the
\* core, then one zero from a tail, which was all that was still wanted.
C21_Witness ==
    /\ pc = "done" /\ len = 2 /\ result = 2
    /\ Len(out) = 2 /\ out[1] # 0 /\ out[2] = 0
    /\ last.ran /\ last.zeroes = 1 /\ last.coreRc + last.objRc = 0

\* ------------------------------------------------- properties of the unit
\* offset is one that offsetToRawDIE turns away.
OutOfRange(offset) == offset = 0 \/ offset < unitHdr.offset \/ offset >= unitHdr.end
\* The DIE offsetToDIE makes of a null raw entry.
NullDIE(offset) == [unit |-> 1, offset |-> offset, raw |-> NullRaw]
\* The latest call resolved the entry at its req.
Resolved == ret.op \in {"offsetToDIE", "root"}

\* C8 (as stated): any two calls of offsetToDIE for one offset, whatever the
\* unit did in between (purge included), return the same DIE: same unit, same
\* offset, same raw entry object.
C8_SameDIEForLife == \A o \in Offsets : Cardinality(seen[o]) <= 1

\* C8 (amended): any two calls of offsetToDIE for one offset with no purge
\* between them return the same DIE, whatever else the unit did in between and
\* whatever the parents given.
C8_SameDIEUntilPurge == \A o \in Offsets : Cardinality(seenNow[o]) <= 1

\* root() is given the entry decoded earlier under another parent, after
\* getLines has run.
C8_Witness ==
    /\ ret.op = "root" /\ ret.die.raw # NullRaw /\ ret.die.raw.parent # 0
    /\ lines # 0
    /\ seenNow[ret.req] = {ret.die.raw.id}

\* C9 (as stated): after a decode of an in-range offset the slot stays in
\* allEntries, and DIE::decode runs at most once per offset between purges.
C9_DecodeOncePerOffset ==
    \A o \in Offsets : /\ decodes[o] >= 1 => allEntries[o] # NoSlot
                       /\ decodes[o] <= 1

\* What holds of the slots in every state.
C9_Slots ==
    \A o \in Offsets :
       /\ decodes[o] >= 1 => allEntries[o] # NoSlot
       /\ allEntries[o] = NullRaw => decodes[o] >= 1 /\ seenNow[o] \subseteq {0}
       /\ allEntries[o] \notin {NoSlot, NullRaw} => decodes[o] = 1
\* What a call does that finds a slot holding nullptr.
C9_Again ==
    \A o \in Offsets :
       Resolved' /\ ret'.req = o /\ allEntries[o] = NullRaw
          => /\ decodes'[o] = decodes[o] + 1
             /\ allEntries'[o] = NullRaw
             /\ ret'.die = NullDIE(o)

\* C9 (amended): after a decode of an in-range offset gave nullptr the slot
\* stays in allEntries holding nullptr, and each later call for the offset
\* with no purge in between runs DIE::decode again and returns a null raw
\* entry; DIE::decode runs at most once between purges for an offset whose
\* decode gave an entry.
C9_NullSlotDecodedAgain == []C9_Slots /\ [][C9_Again]_vars

\* The second call for an offset that decodes to nullptr.
C9_Witness ==
    /\ ret.op = "offsetToDIE" /\ ret.die = NullDIE(ret.req)
    /\ allEntries[ret.req] = NullRaw /\ decodes[ret.req] = 2

\* C10 (as stated): for offset 0 and for an offset outside [offset, end),
\* offsetToDIE returns the empty DIE (no unit, offset 0, no raw entry) and
\* adds no entry to allEntries.
C10_EmptyDIEOutOfRange ==
    ret.op = "offsetToDIE" /\ OutOfRange(ret.req)
       => ret.die = EmptyDIE /\ allEntries[ret.req] = NoSlot

\* C10 (amended): for offset 0 and for an offset outside [offset, end),
\* offsetToDIE returns a DIE with no raw entry that names this unit and the
\* offset asked for, and allEntries never has an entry for such an offset.
C10_NullDIEOutOfRange ==
    /\ ret.op = "offsetToDIE" /\ OutOfRange(ret.req) => ret.die = NullDIE(ret.req)
    /\ \A o \in Offsets : OutOfRange(o) => allEntries[o] = NoSlot /\ decodes[o] = 0

\* A call for an offset at or past end, in a unit that has entries cached.
C10_Witness ==
    /\ ret.op = "offsetToDIE" /\ ret.req >= unitHdr.end
    /\ ret.die = NullDIE(ret.req)
    /\ \E o \in Offsets : allEntries[o] \notin {NoSlot, NullRaw}

\* C11 (as stated): Unit::load runs at most once, whatever the calls and
\* whatever the abbreviation section holds.
C11_LoadAtMostOnce == loads <= 1

\* C11 (amended): the first entry resolution runs Unit::load; when the
\* abbreviation section holds a code before its zero, load never runs again
\* and the table keeps what that run put in it; when the first code is zero
\* the table stays empty.
C11_LoadOnceUnlessEmpty ==
    /\ debugAbbrev > 0 => loads <= 1
    /\ abbreviations = (IF loads = 0 THEN {} ELSE 1..debugAbbrev)
    /\ loads = 0 <=> \A o \in Offsets : seen[o] = {}

\* One run of load in a unit that has decoded an entry, purged and decoded it
\* again.
C11_Witness ==
    /\ debugAbbrev > 0 /\ loads = 1
    /\ \E o \in Offsets : made.raw[o] = 2

\* What a purge changes and what it leaves.
C12_PurgeStep ==
    ret'.op = "purge"
       => /\ allEntries' = NoEntries /\ rangesForOffset' = {} /\ macros' = 0
          /\ abbreviations' = abbreviations /\ lines' = lines
          /\ unitHdr' = unitHdr
\* What getLines does when the unit has a line-number program.
C12_LinesKept ==
    ret'.op = "getLines" /\ lines # 0
       => ret'.ptr = lines /\ lines' = lines /\ made'.lines = made.lines

\* C12: purge empties allEntries, rangesForOffset and macros and leaves the
\* abbreviations, the line-number program and the header fields as they
\* were; getLines after a purge returns the program object it returned
\* before, and no new one is made.
C12_PurgeKeepsLines == [][C12_PurgeStep /\ C12_LinesKept]_vars

\* getLines just returned the program made before a purge that also dropped
\* a macro table; nothing has been decoded since the purge.
C12_Witness ==
    /\ ret.op = "getLines" /\ ret.ptr # 0 /\ ret.ptr = lines /\ made.lines = 1
    /\ allEntries = NoEntries
    /\ macros = 0 /\ made.macros >= 1
    /\ abbreviations # {}

\* The root entry is one getLines makes a program of.
RootHasLines ==
    /\ unitHdr.rootOffset \notin debugInfo.nullAt
    /\ debugInfo.tag \in {"DW_TAG_partial_unit", "DW_TAG_compile_unit"}
    /\ "DW_AT_stmt_list" \in debugInfo.attrs

\* C13: the line-number program is made at most once, by the first getLines
\* on a unit whose root is a compile_unit or partial_unit with DW_AT_stmt_list,
\* and every later getLines returns that object; on a unit with another root
\* every getLines returns no program.
C13_GetLinesIdempotent ==
    /\ made.lines <= 1 /\ lines = made.lines
    /\ lines # 0 => RootHasLines
    /\ ret.op = "getLines" => ret.ptr = (IF RootHasLines THEN 1 ELSE 0) /\ ret.ptr = lines

\* getLines returned the program without resolving the root: it was made by
\* an earlier call.
C13_Witness ==
    /\ ret.op = "getLines" /\ ret.ptr = 1
    /\ allEntries[unitHdr.rootOffset] = NoSlot
    /\ made.raw[unitHdr.rootOffset] = 1

\* ------------------------------------------ properties of sourceFromAddr
\* The rows i of m, not the last, with end_sequence false and
\* m[i].addr <= a < m[i+1].addr.
Pairs(m, a) ==
    { i \in 1..(Len(m) - 1) : ~m[i].end_sequence /\ m[i].addr <= a /\ a < m[i + 1].addr }
First(S) == CHOOSE i \in S : \A j \in S : i <= j

\* C14: when the root contains addr and there is a line program,
\* sourceFromAddr reports the line of the first row i, in matrix order, with
\* end_sequence false and i.addr <= addr < (i+1).addr, and nothing else, and
\* returns true; when there is no such pair of rows, or the root does not
\* contain addr, or there is no line program, it returns false and appends
\* nothing.
C14_FirstAdjacentPair ==
    srcRet.op = "sourceFromAddr"
       => /\ srcRet.contains = "YES" /\ srcRet.lines /\ Pairs(matrix, srcRet.addr) # {}
               => /\ srcRet.res.found
                  /\ srcRet.res.info = <<matrix[First(Pairs(matrix, srcRet.addr))].line>>
          /\ Pairs(matrix, srcRet.addr) = {} \/ srcRet.contains = "NO" \/ ~srcRet.lines
               => ~srcRet.res.found /\ srcRet.res.info = <<>> /\ ~srcRet.res.fault

\* C22: sourceFromAddr never reads a row beyond the end of the matrix: for
\* every matrix and every addr, the row after row i is read only when row i
\* is not the last one.
C22_NoReadPastEnd ==
    srcRet.op = "sourceFromAddr" => ~srcRet.res.past

\* --------------------------------------- properties of the file-note replay
\* The NUL-terminated strings of a region, in order.
RECURSIVE Split(_)
Split(region) ==
    IF region = <<>> THEN <<>>
    ELSE LET n == CHOOSE k \in 1..Len(region) :
                     region[k] = 0 /\ \A j \in 1..(k - 1) : region[j] # 0
         IN <<SubSeq(region, 1, n - 1)>> \o Split(SubSeq(region, n + 1, Len(region)))
\* The sum of end - start over the entries.
RECURSIVE TotalMapped(_)
TotalMapped(entries) ==
    IF entries = <<>> THEN 0
    ELSE (Head(entries).end - Head(entries).start) + TotalMapped(Tail(entries))
\* The places of the entries with fileOff 0, in order.
HeaderPages(entries) ==
    SelectSeq([i \in DOMAIN entries |-> i], LAMBDA i : entries[i].fileOff = 0)
\* The call has returned from a file note.
Replayed == notePc = "done" /\ noteAt # 0

\* C15: on a file note announcing N entries the replay goes over exactly N
\* entries and N file names, entry i with the i-th NUL-terminated name; the
\* total is the sum of end - start over the entries; addElfObject is tried
\* exactly for the entries with fileOff 0, each with its start as load
\* address.
C15_ReplayWholeNote ==
    Replayed =>
       /\ entryAt = notes[noteAt].data.count + 1
       /\ Len(names) = notes[noteAt].data.count
       /\ names = Split(notes[noteAt].data.names)
       /\ stroff = Len(notes[noteAt].data.names)
       /\ totalSize = TotalMapped(notes[noteAt].data.entries)
       /\ [k \in DOMAIN attempts |-> attempts[k].entry] = HeaderPages(notes[noteAt].data.entries)
       /\ \A k \in DOMAIN attempts :
             /\ attempts[k].loadAddr = notes[noteAt].data.entries[attempts[k].entry].start
             /\ attempts[k].name = Split(notes[noteAt].data.names)[attempts[k].entry]

\* A note of two entries with names of different lengths, one of them a
\* header page, has been replayed.
C15_Witness ==
    /\ Replayed /\ noteRet = "true"
    /\ notes[noteAt].data.count = 2 /\ Len(names[1]) # Len(names[2])
    /\ Len(attempts) = 1 /\ totalSize = 3

\* The objects the attempts that did not throw have added.
RECURSIVE Added(_)
Added(tries) ==
    IF tries = <<>> THEN <<>>
    ELSE (IF Head(tries).threw THEN <<>>
          ELSE <<[name |-> Head(tries).name, loadAddr |-> Head(tries).loadAddr]>>)
         \o Added(Tail(tries))

\* C16: an attempt that throws is swallowed: the call still returns true,
\* nothing is added for that entry, and every entry with fileOff 0, the later
\* ones too, is tried with its own file name.
C16_FailureSwallowed ==
    /\ noteRet # "threw"
    /\ loaded = Added(attempts)
    /\ Replayed =>
          /\ noteRet = "true"
          /\ \A i \in DOMAIN notes[noteAt].data.entries :
                notes[noteAt].data.entries[i].fileOff = 0
                   => \E k \in DOMAIN attempts :
                         /\ attempts[k].entry = i
                         /\ attempts[k].name = Split(notes[noteAt].data.names)[i]

\* The first attempt threw, the second, under another name, added its object.
C16_Witness ==
    /\ Replayed /\ noteRet = "true"
    /\ Len(attempts) = 2 /\ attempts[1].threw /\ ~attempts[2].threw
    /\ attempts[1].name # attempts[2].name
    /\ loaded = <<[name |-> attempts[2].name, loadAddr |-> attempts[2].loadAddr]>>

\* ------------------------------------------------- properties of getRegs
\* The prstatus records of task pid, by their place in the notes.
Records(pid) == { i \in DOMAIN notes : IsPrstatus(notes[i]) /\ notes[i].data.pr_pid = pid }

\* C17 (as stated): getRegs(pid) succeeds exactly when the notes hold a
\* CORE/NT_PRSTATUS record of pid, and then delivers the registers the lwp
\* map has for pid; otherwise it fails and leaves the buffer as it was.
C17_RegsFromLwpMap ==
    regRet.op = "getRegs"
       => /\ regRet.ok <=> Records(regRet.pid) # {}
          /\ regRet.ok => /\ regRet.pid \in DOMAIN lwps
                          /\ regRet.reg = lwps[regRet.pid].regs
          /\ ~regRet.ok => regRet.reg = regRet.before

\* C17 (amended): getRegs(pid) succeeds exactly when the notes hold a
\* CORE/NT_PRSTATUS record of pid, and then delivers the pr_reg of the first
\* such record, read from the notes, whatever the lwp map holds; otherwise
\* it returns false and leaves the buffer as it was.
C17_RegsFromNotes ==
    regRet.op = "getRegs"
       => /\ regRet.ok <=> Records(regRet.pid) # {}
          /\ regRet.ok => regRet.reg = notes[First(Records(regRet.pid))].data.pr_reg
          /\ ~regRet.ok => regRet.reg = regRet.before

\* getRegs delivered registers while the lwp map was still empty, past a
\* note of another name for the same task.
C17_Witness ==
    /\ regRet.op = "getRegs" /\ regRet.ok /\ regRet.reg # regRet.before
    /\ lwps = NoLwps
    /\ First(Records(regRet.pid)) > 1 /\ notes[1].data.pr_pid = regRet.pid

\* -------------------------------------------- properties of addressSpace
\* C18: addressSpace returns one range {vaddr, file size, memory size} for
\* each loadable segment of the core image, in the order of the segments,
\* none added, dropped, merged or moved, whatever objects are loaded.
C18_RangePerSegment ==
    spaceRet.called
       => /\ Len(spaceRet.rv) = Len(core.segs)
          /\ \A i \in DOMAIN core.segs :
                spaceRet.rv[i] = [vaddr |-> core.segs[i].p_vaddr,
                                  fileSize |-> core.segs[i].p_filesz,
                                  memSize |-> core.segs[i].p_memsz]

\* The ranges of a core image of two segments, one with a zero-fill tail,
\* in a process with an object loaded.
C18_Witness ==
    /\ spaceRet.called /\ Len(spaceRet.rv) = 2
    /\ \E i \in 1..2 : spaceRet.rv[i].fileSize < spaceRet.rv[i].memSize
    /\ objects # <<>>

C19_States ==
    /\ drvPc = "exit" => ~inDump
    /\ drvPc = "killed" => interrupted /\ handler = "default"
    /\ inDump <=> drvPc = "dump" \/ (drvPc = "killed" /\ inDump)
    /\ interrupted /\ inDump => sigAt = "dump"
    /\ drvPc = "exit" /\ sleepTime = 0 /\ ~interrupted
          => \A i \in DOMAIN loadable : dumps[i] = (IF loadable[i] THEN 1 ELSE 0)
\* Once the flag is set no dump begins, and the flag stays set.
C19_NoDumpAfterFlag ==
    interrupted => interrupted' /\ (inDump' => inDump)

C20_RootInsideUnit ==
    built.state = "built" => built.offset <= built.rootOffset /\ built.rootOffset < built.end

\* ------------------------------------------------------- specifications
\* With no line lookup under study: an empty matrix, no call made.
SourceAside == matrix = <<>> /\ SourceIdle
\* With no notes under study: a core image without notes.
NoteAside == notes = <<>> /\ NoteIdle
\* With no task lookup under study: no task found, no call made.
LwpAside == LwpIdle
\* With no address space asked for.
SpaceAside == SpaceIdle
\* With no driver under study: one argument that does not load, not started.
DriverAside ==
    /\ sleepTime = 0 /\ loadable = <<FALSE>> /\ interrupted = FALSE /\ handler = "handler"
    /\ sigAt = "never" /\ drvPc = "load" /\ procAt = 1 /\ dumps = <<0>> /\ inDump = FALSE
\* With no reader under study: no core, nothing loaded, no read under way.
ReaderAside == core = NoCore /\ objects = <<>> /\ ReadIdle
\* With no unit under study: a fresh unit over an empty section.
UnitAside ==
    /\ unitHdr = [offset |-> 0, rootOffset |-> 1, end |-> 1]
    /\ debugInfo = [nullAt |-> {}, tag |-> "DW_TAG_compile_unit", attrs |-> {}]
    /\ debugAbbrev = 0
    /\ UnitFresh

\* The variables each specification leaves alone.
besideRead == <<unitVars, srcVars, noteVars, lwpVars, spaceRet, drvVars, ctorVars>>
besideUnit == <<readVars, srcVars, noteVars, lwpVars, spaceRet, drvVars, ctorVars>>
besideSource == <<readVars, noteVars, lwpVars, spaceRet, drvVars, ctorVars>>
besideNote == <<readVars, unitVars, srcVars, lwpVars, spaceRet, drvVars, ctorVars>>
NoteRest == <<loaded, notePc, noteAt, entryAt, stroff, totalSize, attempts, names, noteRet>>
besideRegs == <<readVars, unitVars, srcVars, NoteRest, spaceRet, drvVars, ctorVars>>
besideSpace == <<unitVars, srcVars, noteVars, lwpVars, drvVars, ctorVars>>

\* The memory reader of a core process, for every core image and loaded objects.
InitRead == ReaderStart /\ UnitAside /\ SourceAside /\ NoteAside /\ LwpAside /\ SpaceAside /\ DriverAside /\ CtorIdle
NextRead ==
    \/ \E addr \in Addrs, n \in 0..MaxAddr : ReadStart(addr, n) /\ UNCHANGED besideRead
    \/ \E lim \in ReaderLimits : ReadLoop(lim[1], lim[2]) /\ UNCHANGED besideRead
    \/ ReadReturn /\ UNCHANGED besideRead
SpecRead == InitRead /\ [][NextRead]_vars
\* A read under way is not abandoned: while the call sits in the loop or at
\* its break, the loop body or the return goes on running.  This is weak
\* fairness of ReadStep, with its enabling condition (the call is under way)
\* written out.
ReadStep ==
    /\ (\E lim \in ReaderLimits : ReadLoop(lim[1], lim[2])) \/ ReadReturn
    /\ UNCHANGED besideRead
ReadGoesOn == ([]<>~Running) \/ ([]<><<ReadStep>>_vars)
SpecReadLive == InitRead /\ [][NextRead]_vars /\ ReadGoesOn

\* One DWARF unit and its callers, for every unit header and section content.
InitUnit == UnitStart /\ ReaderAside /\ SourceAside /\ NoteAside /\ LwpAside /\ SpaceAside /\ DriverAside /\ CtorIdle
NextUnit ==
    \/ \E parent \in {0, unitHdr.rootOffset}, offset \in Asked :
          OffsetToDIE(parent, offset) /\ UNCHANGED besideUnit
    \/ Root /\ UNCHANGED besideUnit
    \/ GetMacros /\ UNCHANGED besideUnit
    \/ GetLines /\ UNCHANGED besideUnit
    \/ \E offset \in {unitHdr.rootOffset} : CacheRanges(offset) /\ UNCHANGED besideUnit
    \/ Purge /\ UNCHANGED besideUnit
SpecUnit == InitUnit /\ [][NextUnit]_vars

\* Unit::sourceFromAddr on one unit, for every root entry and line matrix.
InitSource ==
    /\ unitHdr = [offset |-> 0, rootOffset |-> 1, end |-> 2]
    /\ debugInfo \in DebugInfos(unitHdr)
    /\ debugAbbrev = MaxAbbrev
    /\ UnitFresh
    /\ matrix \in Matrices /\ SourceIdle
    /\ ReaderAside /\ NoteAside /\ LwpAside /\ SpaceAside /\ DriverAside /\ CtorIdle
NextSource ==
    \E addr \in LineAddrs, contains \in ContainsAddr, beyond \in (0 - 1)..(MaxLineAddr + 1) :
       SourceFromAddr(addr, contains, beyond) /\ UNCHANGED besideSource
SpecSource == InitSource /\ [][NextSource]_vars

\* loadSharedObjectsFromFileNote, for every list of notes; each attempt to
\* load an object may throw.
InitNote ==
    /\ notes \in FileNoteLists /\ NoteIdle
    /\ ReaderAside /\ UnitAside /\ SourceAside /\ LwpAside /\ SpaceAside /\ DriverAside /\ CtorIdle
NextNote ==
    \/ LoadStart /\ UNCHANGED besideNote
    \/ \E throws \in BOOLEAN : LoadEntry(throws) /\ UNCHANGED besideNote
    \/ LoadReturn /\ UNCHANGED besideNote
SpecNote == InitNote /\ [][NextNote]_vars

\* getRegs and stopProcess, for every list of thread notes.
InitRegs ==
    /\ notes \in ThreadNoteLists /\ NoteIdle /\ LwpIdle
    /\ ReaderAside /\ UnitAside /\ SourceAside /\ SpaceAside /\ DriverAside /\ CtorIdle
NextRegs ==
    \/ StopProcess /\ UNCHANGED besideRegs
    \/ \E pid \in 1..(MaxPid + 1), reg \in {0} \cup RegFiles :
          GetRegs(pid, reg) /\ UNCHANGED besideRegs
SpecRegs == InitRegs /\ [][NextRegs]_vars

\* addressSpace, for every core image and loaded objects.
InitSpace ==
    /\ core \in CoreImages \ {NoCore} /\ objects \in ObjectLists /\ ReadIdle
    /\ SpaceIdle
    /\ UnitAside /\ SourceAside /\ NoteAside /\ LwpAside /\ DriverAside /\ CtorIdle
NextSpace == AddressSpace /\ UNCHANGED besideSpace
SpecSpace == InitSpace /\ [][NextSpace]_vars

\* The driver, for every list of arguments and either repeat setting; SIGINT
\* may arrive at any time.
InitDriver ==
    /\ DriverStart
    /\ ReaderAside /\ UnitAside /\ SourceAside /\ NoteAside /\ LwpAside /\ SpaceAside /\ CtorIdle
besideDriver == <<readVars, unitVars, srcVars, noteVars, lwpVars, spaceRet, ctorVars>>
NextDriver ==
    \/ Sigint /\ UNCHANGED besideDriver
    \/ Load /\ UNCHANGED besideDriver
    \/ Check /\ UNCHANGED besideDriver
    \/ Dump /\ UNCHANGED besideDriver
    \/ Sleep /\ UNCHANGED besideDriver
    \/ NextProc /\ UNCHANGED besideDriver
SpecDriver == InitDriver /\ [][NextDriver]_vars

\* The constructor, on every header.
InitCtor ==
    /\ CtorStart
    /\ ReaderAside /\ UnitAside /\ SourceAside /\ NoteAside /\ LwpAside /\ SpaceAside
    /\ DriverAside
besideCtor == <<readVars, unitVars, srcVars, noteVars, lwpVars, spaceRet, drvVars>>
NextCtor == Construct /\ UNCHANGED besideCtor
SpecCtor == InitCtor /\ [][NextCtor]_vars

====
